---- MODULE Spec2Model ----
(***************************************************************************)
(* Model of the Agentic FASTA Renamer (src/app.py).                        *)
(*                                                                         *)
(* Python strings are TLA+ strings; Len, \o and SubSeq act on them         *)
(* character by character, so the code's slicing and stripping are         *)
(* modelled on the characters themselves.                                   *)
(*                                                                         *)
(* Two specifications:                                                      *)
(*   NormSpec  applies normalize_code_indentation to bounded fragments;     *)
(*   Spec      is the interactive session (upload, generate, refine,        *)
(*             preview, apply, reset).                                      *)
(***************************************************************************)
EXTENDS Integers, Sequences, FiniteSets, TLC

VARIABLES
    \* ---- session (st.session_state and the widgets main() reads) ----
    api_key,          \* sidebar text input
    uploaded,         \* whether a FASTA file is uploaded
    records,          \* list(SeqIO.parse(...)): sequence of [id, description]
    lookup_map,       \* dict loaded from the optional CSV
    generated_code,   \* st.session_state.generated_code: None or <<text>>
    preview,          \* what the last run's preview column computed
    applied,          \* what the last 'Apply to All' produced
    script_run,       \* what running the downloaded script produced
    lastAction,       \* the interaction that caused the last run
    \* ---- normalizer harness ----
    code_str,         \* input of normalize_code_indentation
    shift,            \* uniform indentation added to every line of code_str
    cleaned_lines,    \* cleaned_lines of the first call
    norm_once,        \* normalize(code_str)
    norm_twice,       \* normalize(normalize(code_str))
    norm_shifted,     \* normalize(code_str with shift added to every line)
    phase

sessionVars == <<api_key, uploaded, records, lookup_map, generated_code,
                 preview, applied, script_run, lastAction>>
normVars == <<code_str, shift, cleaned_lines, norm_once, norm_twice,
              norm_shifted, phase>>
vars == <<sessionVars, normVars>>

(***************************************************************************)
(* Bounds                                                                  *)
(***************************************************************************)
MaxLines == 3
MaxIndent == 2
MaxRecords == 3

(***************************************************************************)
(* Python str methods used by the code                                      *)
(***************************************************************************)
Char(s, i) == SubSeq(s, i, i)

IsSpace(c) == c \in {" ", "\t", "\n"}

RECURSIVE LeadingSpaces(_, _)
LeadingSpaces(s, i) ==
    IF i <= Len(s) /\ IsSpace(Char(s, i)) THEN LeadingSpaces(s, i + 1) ELSE i - 1

RECURSIVE TrailingSpaces(_, _)
TrailingSpaces(s, n) ==
    IF n < Len(s) /\ IsSpace(Char(s, Len(s) - n)) THEN TrailingSpaces(s, n + 1) ELSE n

\* str.lstrip()
Lstrip(s) == SubSeq(s, LeadingSpaces(s, 1) + 1, Len(s))

\* str.rstrip()
Rstrip(s) == SubSeq(s, 1, Len(s) - TrailingSpaces(s, 0))

\* str.strip()
Strip(s) == Rstrip(Lstrip(s))

\* str.startswith(p)
StartsWith(s, p) == Len(s) >= Len(p) /\ SubSeq(s, 1, Len(p)) = p

\* str.endswith(p)
EndsWith(s, p) == Len(s) >= Len(p) /\ SubSeq(s, Len(s) - Len(p) + 1, Len(s)) = p

\* str.find(sub): index of the first occurrence of sub in s, or 0
Find(s, sub) ==
    LET hits == {i \in 1..(Len(s) - Len(sub) + 1) : SubSeq(s, i, i + Len(sub) - 1) = sub}
    IN IF hits = {} THEN 0 ELSE CHOOSE i \in hits : \A j \in hits : i <= j

\* str.split('\n')
RECURSIVE Split(_)
Split(s) ==
    LET n == Find(s, "\n") IN
    IF n = 0 THEN <<s>>
    ELSE <<SubSeq(s, 1, n - 1)>> \o Split(SubSeq(s, n + 1, Len(s)))

\* "\n".join(lines)
RECURSIVE Join(_)
Join(lines) ==
    IF lines = <<>> THEN ""
    ELSE IF Len(lines) = 1 THEN lines[1]
    ELSE lines[1] \o "\n" \o Join(Tail(lines))

\* str.replace(old, new), old non-empty
RECURSIVE Replace(_, _, _)
Replace(s, old, new) ==
    LET n == Find(s, old) IN
    IF n = 0 THEN s
    ELSE SubSeq(s, 1, n - 1) \o new
            \o Replace(SubSeq(s, n + Len(old), Len(s)), old, new)

(***************************************************************************)
(* normalize_code_indentation (src/app.py:114-145)                          *)
(***************************************************************************)
\* step 1: drop empty lines and 'global' statements
IsValidLine(line) == Strip(line) # "" /\ ~StartsWith(Strip(line), "global ")

ValidLines(lines) == SelectSeq(lines, IsValidLine)

\* variant: the baseline is taken to be zero, so nothing is removed
BaselineIndentNone(first_line) == 0

\* step 2: baseline indentation of the first valid line
BaselineIndent(first_line) == Len(first_line) - Len(Lstrip(first_line))

\* step 3: one line with the baseline removed
CleanLine(line, baseline_indent) ==
    IF Len(line) >= baseline_indent
    THEN SubSeq(line, baseline_indent + 1, Len(line))
    ELSE Lstrip(line)

CleanedLines(s) ==
    LET valid_lines == ValidLines(Split(s)) IN
    IF valid_lines = <<>> THEN <<>>
    ELSE [i \in 1..Len(valid_lines) |->
            CleanLine(valid_lines[i], BaselineIndent(valid_lines[1]))]

normalize_code_indentation(s) == Join(CleanedLines(s))

(***************************************************************************)
(* textwrap.indent(text, prefix), as called at src/app.py:158 and :319:     *)
(* the prefix goes before every line that is not whitespace only            *)
(***************************************************************************)
TextwrapIndent(text, prefix) ==
    LET ls == Split(text) IN
    Join([i \in 1..Len(ls) |-> IF Strip(ls[i]) # "" THEN prefix \o ls[i] ELSE ls[i]])

(***************************************************************************)
(* The Python the code hands to exec(): statements of the fragments, of     *)
(* the wrapper and of BASE_TEMPLATE                                          *)
(***************************************************************************)
S_upper    == "new_id = original_id.upper()"
S_desc     == "new_description = new_id"
S_lookup   == "new_id = lookup_map[original_id]"
S_get      == "new_id = lookup_map.get(original_id, original_id)"
S_undef    == "new_id = undefined_var"
S_exit     == "raise SystemExit"
S_identity == "new_id = original_id; new_description = original_description"
S_if       == "if original_id in lookup_map:"
S_global   == "global lookup_map"
S_import   == "import re"
S_return_locals ==
    "return locals().get('new_id', original_id), locals().get('new_description', original_description)"
S_return_names == "return new_id, new_description"

FragmentStatements ==
    {S_upper, S_desc, S_lookup, S_get, S_undef, S_exit, S_identity, S_if,
     S_global, S_import, S_return_locals, S_return_names}

\* str.upper() on the characters that occur in identifiers
UpperChar(c) ==
    CASE c = "a" -> "A" [] c = "e" -> "E" [] c = "q" -> "Q" [] c = "s" -> "S"
      [] OTHER -> c

RECURSIVE Upper(_)
Upper(s) == IF s = "" THEN "" ELSE UpperChar(Char(s, 1)) \o Upper(SubSeq(s, 2, Len(s)))

\* logical lines: blank lines and comment-only lines are no statements
IsLogicalLine(l) == Strip(l) # "" /\ ~StartsWith(Strip(l), "#")
PyLines(src) ==
    LET ls == SelectSeq(Split(src), IsLogicalLine)
    IN [i \in 1..Len(ls) |-> [indent |-> LeadingSpaces(ls[i], 1), body |-> Strip(ls[i])]]
IsOpener(l) == EndsWith(l.body, ":")
IsDef(l) == StartsWith(l.body, "def ")
IsReturn(l) == StartsWith(l.body, "return ")

\* pop the blocks that a line of indentation d closes
RECURSIVE PopTo(_, _)
PopTo(stack, d) ==
    IF Len(stack) > 1 /\ stack[Len(stack)].indent > d
    THEN PopTo(SubSeq(stack, 1, Len(stack) - 1), d)
    ELSE stack

\* compile(): the block structure of the lines from i on. stack holds the
\* open blocks (indentation, inside a def or not); opener is "" or the kind of
\* the compound statement the previous line opened. "ok" or the SyntaxError.
RECURSIVE PyCompileFrom(_, _, _, _)
PyCompileFrom(lines, i, stack, opener) ==
    IF i > Len(lines)
    THEN IF opener # "" THEN "expected an indented block" ELSE "ok"
    ELSE
      LET d   == lines[i].indent
          top == stack[Len(stack)]
          st  == IF opener # ""
                 THEN Append(stack, [indent |-> d, def |-> top.def \/ opener = "def"])
                 ELSE PopTo(stack, d)
          next == IF ~IsOpener(lines[i]) THEN ""
                  ELSE IF IsDef(lines[i]) THEN "def" ELSE "block"
      IN
      IF opener # "" /\ d <= top.indent THEN "expected an indented block"
      ELSE IF opener = "" /\ d > top.indent THEN "unexpected indent"
      ELSE IF st[Len(st)].indent # d
           THEN "unindent does not match any outer indentation level"
      ELSE IF IsReturn(lines[i]) /\ ~st[Len(st)].def THEN "'return' outside function"
      ELSE PyCompileFrom(lines, i + 1, st, next)

\* exec(src, scope) of a program text: its logical lines and "ok" or the
\* SyntaxError
PyExec(src) ==
    LET lines == PyLines(src)
    IN [lines |-> lines,
        error |-> PyCompileFrom(lines, 1, <<[indent |-> 0, def |-> FALSE]>>, "")]

\* the lines of the body of the function that `header` defines
RECURSIVE BlockEnd(_, _, _)
BlockEnd(lines, i, d) ==
    IF i > Len(lines) \/ lines[i].indent <= d THEN i ELSE BlockEnd(lines, i + 1, d)

FunctionBody(lines, header) ==
    LET k == CHOOSE k \in 1..Len(lines) : lines[k].body = header
    IN SubSeq(lines, k + 1, BlockEnd(lines, k + 1, lines[k].indent) - 1)

\* local variables of one call; unbound names are absent
NoLocals == [new_id |-> <<>>, new_description |-> <<>>]

\* how a call ends: a returned pair, an exception, or the end of the body
\* (the function returns None; locals holds the names bound by then)
Returned(nid, ndesc) ==
    [status |-> "ok", new_id |-> nid, new_description |-> ndesc, exc |-> "", msg |-> "",
     locals |-> NoLocals]
Raised(exc, msg) ==
    [status |-> "raise", new_id |-> "", new_description |-> "", exc |-> exc, msg |-> msg,
     locals |-> NoLocals]
ReturnedNone(env) ==
    [status |-> "none", new_id |-> "", new_description |-> "", exc |-> "", msg |-> "",
     locals |-> env]

\* exception classes that 'except Exception' catches
IsException(exc) == exc \notin {"SystemExit", "KeyboardInterrupt", "GeneratorExit"}

\* a name is local to the function when some statement of it assigns the name
AssignsNewId(b) == b \in {S_upper, S_lookup, S_get, S_undef, S_identity}
AssignsNewDescription(b) == b \in {S_desc, S_identity}

\* reading a name that holds no value
Unbound(lines, name) ==
    IF \E k \in 1..Len(lines) :
          IF name = "new_id" THEN AssignsNewId(lines[k].body)
          ELSE AssignsNewDescription(lines[k].body)
    THEN Raised("UnboundLocalError",
                "cannot access local variable '" \o name
                    \o "' where it is not associated with a value")
    ELSE Raised("NameError", "name '" \o name \o "' is not defined")

\* calling the function: the statements from line i on
RECURSIVE PyExecFrom(_, _, _, _, _, _)
PyExecFrom(lines, i, env, original_id, original_description, map) ==
    IF i > Len(lines) THEN ReturnedNone(env)
    ELSE
      LET b == lines[i].body
          go(e) == PyExecFrom(lines, i + 1, e, original_id, original_description, map)
      IN
      CASE b = S_upper -> go([env EXCEPT !.new_id = <<Upper(original_id)>>])
        [] b = S_desc ->
             IF env.new_id = <<>> THEN Unbound(lines, "new_id")
             ELSE go([env EXCEPT !.new_description = env.new_id])
        [] b = S_lookup ->
             IF original_id \in DOMAIN map
             THEN go([env EXCEPT !.new_id = <<map[original_id]>>])
             ELSE Raised("KeyError", "'" \o original_id \o "'")
        [] b = S_get ->
             go([env EXCEPT !.new_id =
                    <<IF original_id \in DOMAIN map THEN map[original_id] ELSE original_id>>])
        [] b = S_undef -> Raised("NameError", "name 'undefined_var' is not defined")
        [] b = S_exit -> Raised("SystemExit", "")
        [] b = S_identity ->
             go([new_id |-> <<original_id>>, new_description |-> <<original_description>>])
        [] b = S_if ->
             IF original_id \in DOMAIN map THEN go(env)
             ELSE PyExecFrom(lines, BlockEnd(lines, i + 1, lines[i].indent), env,
                             original_id, original_description, map)
        [] b = S_return_locals ->
             Returned(IF env.new_id = <<>> THEN original_id ELSE env.new_id[1],
                      IF env.new_description = <<>> THEN original_description
                      ELSE env.new_description[1])
        [] b = S_return_names ->
             IF env.new_id = <<>> THEN Unbound(lines, "new_id")
             ELSE IF env.new_description = <<>> THEN Unbound(lines, "new_description")
             ELSE Returned(env.new_id[1], env.new_description[1])
        [] OTHER -> go(env)    \* 'import re', 'global lookup_map'

(***************************************************************************)
(* BASE_TEMPLATE (src/app.py:13-45) and the script rendered from it         *)
(***************************************************************************)
BASE_TEMPLATE ==
    "\n"
    \o "import sys\n"
    \o "from Bio import SeqIO\n"
    \o "import re\n"
    \o "\n"
    \o "# --- INJECTED DATA ---\n"
    \o "lookup_map = {lookup_map_repr}\n"
    \o "# ---------------------\n"
    \o "\n"
    \o "def modify_header(original_id, original_description):\n"
    \o "    # --- START AGENT GENERATED LOGIC ---\n"
    \o "    {logic_code}\n"
    \o "    # --- END AGENT GENERATED LOGIC ---\n"
    \o "    return new_id, new_description\n"
    \o "\n"
    \o "def main():\n"
    \o "    # Standalone execution logic\n"
    \o "    input_file = \"input.fasta\" \n"
    \o "    output_file = \"output.fasta\"\n"
    \o "    \n"
    \o "    records = []\n"
    \o "    for record in SeqIO.parse(input_file, \"fasta\"):\n"
    \o "        nid, ndesc = modify_header(record.id, record.description)\n"
    \o "        record.id = nid\n"
    \o "        record.description = ndesc\n"
    \o "        record.name = \"\"\n"
    \o "        records.append(record)\n"
    \o "    \n"
    \o "    SeqIO.write(records, output_file, \"fasta\")\n"
    \o "\n"
    \o "if __name__ == \"__main__\":\n"
    \o "    main()\n"

EmptyMap == [k \in {} |-> ""]

\* repr() of a dict of at most one entry
Repr(map) ==
    IF DOMAIN map = {} THEN "{}"
    ELSE LET k == CHOOSE k \in DOMAIN map : TRUE
         IN "{'" \o k \o "': '" \o map[k] \o "'}"

\* full_script (src/app.py:308-311)
FullScript(logic_code, map) ==
    Replace(Replace(BASE_TEMPLATE, "{lookup_map_repr}", Repr(map)),
            "{logic_code}", logic_code)

\* index of the first quote at or after i, or 0
FindQuote(s, i) ==
    LET n == Find(SubSeq(s, i, Len(s)), "'") IN IF n = 0 THEN 0 ELSE i + n - 1

\* the dict that the literal written by Repr evaluates to
EvalDictLiteral(text) ==
    IF text = "{}" THEN EmptyMap
    ELSE LET q1 == FindQuote(text, 1)
             q2 == FindQuote(text, q1 + 1)
             q3 == FindQuote(text, q2 + 1)
             q4 == FindQuote(text, q3 + 1)
         IN [k \in {SubSeq(text, q1 + 1, q2 - 1)} |-> SubSeq(text, q3 + 1, q4 - 1)]

\* the value the script's 'lookup_map = ...' statement binds
ScriptLookupMap(lines) ==
    LET k == CHOOSE k \in 1..Len(lines) :
                lines[k].indent = 0 /\ StartsWith(lines[k].body, "lookup_map = ")
    IN EvalDictLiteral(SubSeq(lines[k].body, Len("lookup_map = ") + 1, Len(lines[k].body)))

(***************************************************************************)
(* get_llm_logic (src/app.py:81-112)                                        *)
(***************************************************************************)
None == <<>>
Some(x) == <<x>>

\* the markdown fence; a TLA+ string cannot hold a backtick, '~' stands for it
Fence == "~~~"

\* line 111: response.content without the fences, stripped
CleanResponse(content) ==
    Strip(Replace(Replace(content, Fence \o "python", ""), Fence, ""))

\* what the text-generation service may answer
LLMResponses ==
    { S_upper,
      Fence \o "python\n" \o S_upper \o "\n" \o S_desc \o "\n" \o Fence,
      S_lookup \o "\n" \o S_desc,
      S_get,
      S_undef,
      S_if \o "\n" \o S_lookup,
      S_if \o "\n    " \o S_lookup,
      "    " \o S_global \o "\n    " \o S_lookup \o "\n    " \o S_desc,
      S_exit,
      S_identity,
      Fence \o "\n" \o Fence }

\* line 111 on each of them
Cleaned == [c \in LLMResponses |-> CleanResponse(c)]

\* llm.invoke either answers or raises
LLMOutcomes ==
    {[ok |-> TRUE, content |-> c] : c \in LLMResponses}
        \cup {[ok |-> FALSE, content |-> ""]}

\* the value returned, or the exception of llm.invoke passed on
get_llm_logic(key, outcome) ==
    IF key = "" THEN [raised |-> FALSE, code |-> None]
    ELSE IF ~outcome.ok THEN [raised |-> TRUE, code |-> None]
    ELSE [raised |-> FALSE, code |-> Some(Cleaned[outcome.content])]

(***************************************************************************)
(* test_logic_safely (src/app.py:147-197)                                   *)
(***************************************************************************)
DynamicModifierDef == "def dynamic_modifier(original_id, original_description):"

\* variant: the wrapper returns the names directly, as BASE_TEMPLATE does
ReturnLineDirect == "    " \o S_return_names

PreviewReturnLine == "    " \o S_return_locals

\* full_function_str (lines 155-166)
PreviewFunctionStr(logic_code) ==
    DynamicModifierDef \o "\n"
    \o "    import re\n"
    \o TextwrapIndent(normalize_code_indentation(logic_code), "    ") \o "\n"
    \o PreviewReturnLine

\* uploaded files and the widgets' values
IDs == {"seq1", "a"}
Record(id) == [id |-> id, description |-> id \o " sample"]
RecordSets == UNION {[1..k -> {Record(id) : id \in IDs}] : k \in 0..MaxRecords}
Maps == {EmptyMap, [k \in {"a"} |-> "X"]}
ApiKeys == {"", "KEY"}
Requests == {"", "rename"}

ApplyReturnLine == "    " \o S_return_locals

\* full_function_str of the apply handler (lines 318-326)
ApplyFunctionStr(logic_code) ==
    DynamicModifierDef \o "\n"
    \o "    import re\n"
    \o TextwrapIndent(normalize_code_indentation(logic_code), "    ") \o "\n"
    \o ApplyReturnLine

(***************************************************************************)
(* exec() and the calls of the functions it defines. exec is a pure         *)
(* function of the program text, so it is tabulated over the texts the      *)
(* session can produce.                                                     *)
(***************************************************************************)
\* the values st.session_state.generated_code can hold
StoredFragments == {Cleaned[c] : c \in LLMResponses}

\* the program texts built from them
PreviewSource == [c \in StoredFragments |-> PreviewFunctionStr(c)]
ApplySource == [c \in StoredFragments |-> ApplyFunctionStr(c)]
ScriptSource == [c \in StoredFragments |-> [m \in Maps |-> FullScript(c, m)]]

Programs ==
    {PreviewSource[c] : c \in StoredFragments}
        \cup {ApplySource[c] : c \in StoredFragments}
        \cup {ScriptSource[c][m] : c \in StoredFragments, m \in Maps}

Executed == [src \in Programs |-> PyExec(src)]

\* "ok" or the SyntaxError that exec(src) raises
PyCompile(src) == Executed[src].error

\* nid, ndesc = func(original_id, original_description) for the function
\* `header` of src; None cannot be unpacked
PyCall(src, header, original_id, original_description, map) ==
    LET r == PyExecFrom(FunctionBody(Executed[src].lines, header), 1, NoLocals,
                        original_id, original_description, map)
    IN IF r.status = "none"
       THEN Raised("TypeError", "cannot unpack non-iterable NoneType object")
       ELSE r

ModifyHeaderDef == "def modify_header(original_id, original_description):"

\* main() of the rendered script: the loop has no try, the file is written
\* after the loop
RECURSIVE ScriptLoop(_, _, _)
ScriptLoop(script, recs, out) ==
    IF recs = <<>> THEN [status |-> "written", output |-> out]
    ELSE LET r == PyCall(script, ModifyHeaderDef, recs[1].id, recs[1].description,
                         ScriptLookupMap(Executed[script].lines))
         IN IF r.status = "raise" THEN [status |-> r.exc, output |-> <<>>]
            ELSE ScriptLoop(script, Tail(recs),
                            Append(out, [id |-> r.new_id, description |-> r.new_description]))

\* python custom_rename_script.py, with input.fasta holding recs
RunScript(script, recs) ==
    IF PyCompile(script) # "ok" THEN [status |-> "SyntaxError", output |-> <<>>]
    ELSE ScriptLoop(script, recs, <<>>)

PreviewRow(old_id, r) ==
    IF r.status = "ok"
    THEN [original_id |-> old_id, new_id |-> r.new_id,
          status |-> IF old_id # r.new_id THEN "Changed" ELSE "Unchanged"]
    ELSE [original_id |-> old_id, new_id |-> "ERROR", status |-> r.msg]

\* the for loop (lines 177-192); an exception that 'except Exception' does
\* not catch leaves the function
RECURSIVE PreviewLoop(_, _, _, _)
PreviewLoop(src, recs, map, rows) ==
    IF recs = <<>> THEN [rows |-> rows, error |-> None, raised |-> FALSE]
    ELSE LET r == PyCall(src, DynamicModifierDef, recs[1].id, recs[1].description, map)
         IN IF r.status = "raise" /\ ~IsException(r.exc)
            THEN [rows |-> <<>>, error |-> None, raised |-> TRUE]
            ELSE PreviewLoop(src, Tail(recs), map, Append(rows, PreviewRow(recs[1].id, r)))

\* variant: a build error reported like a record's error, one row each
BuildErrorAsRows(src, sample_records, err) ==
    [rows |-> [i \in 1..Len(sample_records) |->
                  [original_id |-> sample_records[i].id, new_id |-> "ERROR", status |-> err]],
     error |-> None, raised |-> FALSE]

\* the outer except (lines 194-195)
PreviewBuildError(src, sample_records, err) ==
    [rows |-> <<>>,
     error |-> Some("Syntax Error: " \o err \o "\n\nGenerated Code Context:\n" \o src),
     raised |-> FALSE]

test_logic_safely(logic_code, sample_records, map) ==
    LET src == PreviewSource[logic_code] IN
    IF PyCompile(src) # "ok" THEN PreviewBuildError(src, sample_records, PyCompile(src))
    ELSE PreviewLoop(src, sample_records, map, <<>>)

(***************************************************************************)
(* main (src/app.py:203-358): one action per interaction; every action      *)
(* ends with the rerun of the page, which recomputes the preview            *)
(***************************************************************************)
\* records[:5] (line 289)
PreviewSize == 5
Take(seq, n) == SubSeq(seq, 1, IF Len(seq) < n THEN Len(seq) ELSE n)

NoPreview == [rows |-> <<>>, error |-> None, raised |-> FALSE]
NotApplied == [status |-> "none", output |-> <<>>, script |-> ""]
NoScriptRun == [status |-> "none", output |-> <<>>]

\* the page after an interaction: CASE B renders the preview (lines 286-298)
PreviewOf(up, code, recs, map) ==
    IF up /\ code # None
    THEN test_logic_safely(code[1], Take(recs, PreviewSize), map)
    ELSE NoPreview

\* variant: the loop stops at the first record that raises
RECURSIVE BatchLoopAbort(_, _, _, _)
BatchLoopAbort(src, recs, map, new_records) ==
    IF recs = <<>> THEN new_records
    ELSE LET r == PyCall(src, DynamicModifierDef, recs[1].id, recs[1].description, map)
         IN IF r.status = "raise" THEN new_records
            ELSE BatchLoopAbort(src, Tail(recs), map,
                     Append(new_records, [id |-> r.new_id, description |-> r.new_description]))

\* the for loop of the apply handler (lines 332-340): bare except, pass
RECURSIVE BatchLoop(_, _, _, _)
BatchLoop(src, recs, map, new_records) ==
    IF recs = <<>> THEN new_records
    ELSE LET r == PyCall(src, DynamicModifierDef, recs[1].id, recs[1].description, map)
         IN BatchLoop(src, Tail(recs), map,
                IF r.status = "raise" THEN new_records
                ELSE Append(new_records, [id |-> r.new_id, description |-> r.new_description]))

\* the apply handler (lines 313-342): exec is outside any try, so a fragment
\* that does not compile ends the run with the SyntaxError
ApplyResult(logic_code, recs, map) ==
    LET src == ApplySource[logic_code]
        full_script == ScriptSource[logic_code][map]
    IN
    IF PyCompile(src) # "ok"
    THEN [status |-> "SyntaxError", output |-> <<>>, script |-> full_script]
    ELSE [status |-> "done", output |-> BatchLoop(src, recs, map, <<>>),
          script |-> full_script]

\* variant: the apply handler clears the stored fragment
StoredAfterApplyCleared == None

\* st.session_state.generated_code after the apply handler (lines 313-342)
StoredAfterApply == generated_code

\* CASE B is rendered: 'Update Logic' can be pressed (lines 266-284)
CanRefine == uploaded /\ generated_code # None

Init ==
    /\ api_key = ""
    /\ uploaded = FALSE
    /\ records = <<>>
    /\ lookup_map = EmptyMap
    /\ generated_code = None
    /\ preview = NoPreview
    /\ applied = NotApplied
    /\ script_run = NoScriptRun
    /\ lastAction = "none"
    /\ code_str = ""
    /\ shift = ""
    /\ cleaned_lines = <<>>
    /\ norm_once = ""
    /\ norm_twice = ""
    /\ norm_shifted = ""
    /\ phase = "session"

\* the rerun that ends every interaction with the page
Rerun(action) ==
    /\ preview' = PreviewOf(uploaded', generated_code', records', lookup_map')
    /\ applied' = NotApplied
    /\ script_run' = NoScriptRun
    /\ lastAction' = action
    /\ UNCHANGED normVars

\* sidebar text input (line 214)
SetApiKey ==
    /\ \E k \in ApiKeys : api_key' = k
    /\ UNCHANGED <<uploaded, records, lookup_map, generated_code>>
    /\ Rerun("set_key")

\* 'Reset / Start Over' (lines 217-219)
Reset ==
    /\ generated_code' = None
    /\ UNCHANGED <<api_key, uploaded, records, lookup_map>>
    /\ Rerun("reset")

\* file uploader (lines 222, 236-242)
UploadFasta ==
    /\ \E rs \in RecordSets : records' = rs
    /\ uploaded' = TRUE
    /\ UNCHANGED <<api_key, lookup_map, generated_code>>
    /\ Rerun("upload")

\* optional CSV map (lines 225-234)
UploadCsv ==
    /\ \E m \in Maps : lookup_map' = m
    /\ UNCHANGED <<api_key, uploaded, records, generated_code>>
    /\ Rerun("csv")

\* 'Generate Initial Logic' (lines 248-263)
GenerateInitialLogic ==
    /\ uploaded
    /\ generated_code = None
    /\ \E user_request \in Requests, outcome \in LLMOutcomes :
          LET code == get_llm_logic(api_key, outcome) IN
          generated_code' = IF user_request = "" \/ code.raised
                            THEN generated_code
                            ELSE code.code
    /\ UNCHANGED <<api_key, uploaded, records, lookup_map>>
    /\ Rerun("generate")

\* 'Update Logic' (lines 280-284)
UpdateLogic ==
    /\ uploaded
    /\ generated_code # None
    /\ \E outcome \in LLMOutcomes :
          LET new_code == get_llm_logic(api_key, outcome) IN
          generated_code' = IF new_code.raised THEN generated_code ELSE new_code.code
    /\ UNCHANGED <<api_key, uploaded, records, lookup_map>>
    /\ Rerun("update")

\* 'Apply to All & Download' (lines 313-358); the button is rendered only
\* when the preview above it returned
ApplyToAll ==
    /\ uploaded
    /\ generated_code # None
    /\ ~preview.raised
    /\ generated_code' = StoredAfterApply
    /\ applied' = ApplyResult(generated_code[1], records, lookup_map)
    /\ preview' = PreviewOf(uploaded, generated_code', records, lookup_map)
    /\ script_run' = NoScriptRun
    /\ lastAction' = "apply"
    /\ UNCHANGED <<api_key, uploaded, records, lookup_map, normVars>>

\* the user runs the downloaded custom_rename_script.py on the same file
RunDownloadedScript ==
    /\ applied.status = "done"
    /\ script_run' = RunScript(applied.script, records)
    /\ lastAction' = "run_script"
    /\ UNCHANGED <<api_key, uploaded, records, lookup_map, generated_code,
                   preview, applied, normVars>>

Next ==
    \/ SetApiKey
    \/ Reset
    \/ UploadFasta
    \/ UploadCsv
    \/ GenerateInitialLogic
    \/ UpdateLogic
    \/ ApplyToAll
    \/ RunDownloadedScript

Spec == Init /\ [][Next]_vars

(***************************************************************************)
(* Harness for normalize_code_indentation: bounded fragments                *)
(***************************************************************************)
RECURSIVE Spaces(_)
Spaces(n) == IF n = 0 THEN "" ELSE " " \o Spaces(n - 1)

\* line contents: blank, short code, longer code, a global declaration
NormBodies == {"", "a", "bcd", "global x"}

NormLines == {Spaces(n) \o b : n \in 0..MaxIndent, b \in NormBodies}

NormInputs ==
    {Join(ls) : ls \in UNION {[1..k -> NormLines] : k \in 1..MaxLines}}

\* uniform whitespace prefixes
Shifts == {Spaces(n) : n \in 1..MaxIndent} \cup {"\t"}

\* the same prefix added to every line of s
AddIndent(s, p) ==
    LET ls == Split(s) IN Join([i \in 1..Len(ls) |-> p \o ls[i]])

SessionIdle ==
    /\ api_key = ""
    /\ uploaded = FALSE
    /\ records = <<>>
    /\ lookup_map = <<>>
    /\ generated_code = <<>>
    /\ preview = <<>>
    /\ applied = <<>>
    /\ script_run = <<>>
    /\ lastAction = "none"

NormInit ==
    /\ SessionIdle
    /\ code_str \in NormInputs
    /\ shift = ""
    /\ cleaned_lines = <<>>
    /\ norm_once = ""
    /\ norm_twice = ""
    /\ norm_shifted = ""
    /\ phase = "input"

NormalizeOnce ==
    /\ phase = "input"
    /\ cleaned_lines' = CleanedLines(code_str)
    /\ norm_once' = normalize_code_indentation(code_str)
    /\ phase' = "once"
    /\ UNCHANGED <<sessionVars, code_str, shift, norm_twice, norm_shifted>>

NormalizeTwice ==
    /\ phase = "once"
    /\ norm_twice' = normalize_code_indentation(norm_once)
    /\ phase' = "twice"
    /\ UNCHANGED <<sessionVars, code_str, shift, cleaned_lines, norm_once, norm_shifted>>

NormalizeShifted ==
    /\ phase = "twice"
    /\ \E p \in Shifts :
          /\ shift' = p
          /\ norm_shifted' = normalize_code_indentation(AddIndent(code_str, p))
    /\ phase' = "shifted"
    /\ UNCHANGED <<sessionVars, code_str, cleaned_lines, norm_once, norm_twice>>

NormNext == NormalizeOnce \/ NormalizeTwice \/ NormalizeShifted

NormSpec == NormInit /\ [][NormNext]_vars

(***************************************************************************)
(* Claims about normalize_code_indentation (checked under NormSpec)         *)
(***************************************************************************)
NonBlankLines(s) == SelectSeq(Split(s), LAMBDA l : Strip(l) # "")

\* the first non-blank line of s has no leading whitespace
FirstNonBlankAligned(s) ==
    NonBlankLines(s) # <<>> /\ LeadingSpaces(NonBlankLines(s)[1], 1) = 0

\* C8: for every fragment whose first non-blank line has no leading
\* whitespace, normalizing the normalized fragment yields the same string as
\* normalizing once.
C8_Idempotent ==
    (phase \in {"twice", "shifted"} /\ FirstNonBlankAligned(code_str))
        => norm_twice = norm_once

\* C9: adding the same whitespace prefix to every line of a fragment does not
\* change the result of normalize_code_indentation.
C9_ShiftInvariant ==
    phase = "shifted" => norm_shifted = norm_once

\* a shifted fragment of several kept lines whose baseline is not zero and
\* whose normal form differs from the input
C9_Witness ==
    /\ phase = "shifted"
    /\ Len(cleaned_lines) >= 2
    /\ BaselineIndent(ValidLines(Split(code_str))[1]) > 0
    /\ norm_once # code_str
    /\ norm_shifted = norm_once

\* line `out` is line `kept` with a prefix of its leading whitespace removed
OnlyIndentRemoved(kept, out) ==
    \E j \in 0..LeadingSpaces(kept, 1) : out = SubSeq(kept, j + 1, Len(kept))

\* C10: every output line of normalize_code_indentation is the corresponding
\* retained input line with only leading whitespace removed; no output line is
\* empty.
C10_OnlyLeadingWhitespaceRemoved ==
    phase # "input" =>
        \A k \in 1..Len(cleaned_lines) :
            /\ cleaned_lines[k] # ""
            /\ OnlyIndentRemoved(ValidLines(Split(code_str))[k], cleaned_lines[k])

(***************************************************************************)
(* Claims about the session (checked under Spec)                            *)
(***************************************************************************)
Code == generated_code[1]
Sample == Take(records, PreviewSize)

\* the fragment alone, run on record rec: status "none" with the names it
\* bound, or "raise"
FragmentRun(logic_code, rec, map) ==
    PyExecFrom(PyLines(normalize_code_indentation(logic_code)), 1, NoLocals,
               rec.id, rec.description, map)

\* the pair the evaluator must return for a fragment run that did not raise
ExpectedPair(rec, run) ==
    [id |-> IF run.locals.new_id = <<>> THEN rec.id ELSE run.locals.new_id[1],
     description |-> IF run.locals.new_description = <<>> THEN rec.description
                     ELSE run.locals.new_description[1]]

\* the wrapper built from the stored fragment compiles
Builds == PyCompile(PreviewSource[Code]) = "ok"

\* the records of the file on which the built function does not raise
Survivors ==
    {i \in 1..Len(records) :
        PyCall(ApplySource[Code], DynamicModifierDef,
               records[i].id, records[i].description, lookup_map).status = "ok"}

\* position in the output of surviving record i
Rank(S, i) == Cardinality({j \in S : j <= i})

\* C1: a synthesis action (Generate Initial Logic, Update Logic) triggered
\* with an empty API key leaves the stored fragment as it was.
C1_NoKeyNoChange ==
    [][(lastAction' \in {"generate", "update"} /\ api_key = "")
          => generated_code' = generated_code]_vars

\* C2: the downloaded script, run on the uploaded file, writes the same
\* records as 'Apply to All' produced.
C2_ScriptMatchesApply ==
    lastAction = "run_script" => script_run.output = applied.output

\* C3: the output of batch apply is exactly the records whose transformation
\* did not raise, in their original order, each with the identifier and the
\* description returned for it.
C3_BatchSkipsFailures ==
    applied.status = "done" =>
        /\ Len(applied.output) = Cardinality(Survivors)
        /\ \A i \in Survivors :
              LET r == PyCall(ApplySource[Code], DynamicModifierDef,
                              records[i].id, records[i].description, lookup_map)
              IN applied.output[Rank(Survivors, i)]
                    = [id |-> r.new_id, description |-> r.new_description]

\* three records, the second raises, the first and the third are written
C3_Witness ==
    /\ applied.status = "done"
    /\ Len(records) = 3
    /\ Survivors = {1, 3}
    /\ Len(applied.output) = 2

\* C4: a fragment that does not build gives a build error, not rows: the
\* preview returns the error message and no row, batch apply ends with the
\* SyntaxError and no output record; a fragment that builds gives neither.
C4_BuildErrorDistinct ==
    (uploaded /\ generated_code # None) =>
        IF Builds
        THEN /\ preview.error = None
             /\ applied.status # "SyntaxError"
        ELSE /\ preview.error # None
             /\ StartsWith(preview.error[1], "Syntax Error: ")
             /\ preview.rows = <<>>
             /\ ~preview.raised
             /\ applied.status \in {"none", "SyntaxError"}
             /\ applied.output = <<>>
             /\ lastAction = "apply" => applied.status = "SyntaxError"

\* batch apply was pressed on a fragment that does not build, with records
C4_Witness ==
    /\ lastAction = "apply"
    /\ generated_code # None
    /\ ~Builds
    /\ Len(records) >= 1
    /\ applied.status = "SyntaxError"

\* C5: when the fragment runs on a record without raising, the evaluator
\* returns for each of new_id and new_description the value the fragment
\* assigned, or the original value when it assigned none; leaving an output
\* unassigned is no failure.
C5_FallbackToOriginal ==
    (uploaded /\ generated_code # None /\ Builds) =>
        /\ ~preview.raised =>
              \A i \in 1..Len(Sample) :
                  LET run == FragmentRun(Code, Sample[i], lookup_map) IN
                  run.status = "none" =>
                      /\ preview.rows[i].new_id = ExpectedPair(Sample[i], run).id
                      /\ preview.rows[i].status \in {"Changed", "Unchanged"}
        /\ applied.status = "done" =>
              LET ok == {i \in 1..Len(records) :
                            FragmentRun(Code, records[i], lookup_map).status = "none"}
              IN \A i \in ok :
                    /\ Rank(ok, i) <= Len(applied.output)
                    /\ applied.output[Rank(ok, i)]
                          = ExpectedPair(records[i], FragmentRun(Code, records[i], lookup_map))

\* 'new_id = original_id.upper()' on 'seq1': 'SEQ1' with the original
\* description, in the preview and in the output
C5_Witness ==
    /\ applied.status = "done"
    /\ Code = S_upper
    /\ records # <<>>
    /\ records[1].id = "seq1"
    /\ preview.rows[1].new_id = "SEQ1"
    /\ applied.output[1] = [id |-> "SEQ1", description |-> records[1].description]

\* C6: for a fragment that builds, the preview call does not raise and
\* returns one row per sample record, in order: the error sentinel and the
\* error text for a record that fails, the new identifier with Changed or
\* Unchanged for one that succeeds.
C6_PreviewNeverRaises ==
    (uploaded /\ generated_code # None /\ Builds) =>
        /\ ~preview.raised
        /\ Len(preview.rows) = Len(Sample)
        /\ \A i \in 1..Len(Sample) :
              LET r == PyCall(PreviewSource[Code], DynamicModifierDef,
                              Sample[i].id, Sample[i].description, lookup_map)
                  row == preview.rows[i]
              IN /\ row.original_id = Sample[i].id
                 /\ r.status = "raise" => row.new_id = "ERROR" /\ row.status = r.msg
                 /\ r.status = "ok" =>
                        /\ row.new_id = r.new_id
                        /\ row.status = IF r.new_id # Sample[i].id THEN "Changed"
                                        ELSE "Unchanged"

\* C7: 'Apply to All' leaves the stored fragment unchanged and a refinement
\* is enabled after it.
C7_ApplyKeepsFragment ==
    [][lastAction' = "apply" => (generated_code' = generated_code /\ CanRefine')]_vars

\* an apply has produced its output and 'Update Logic' can be pressed
C7_Witness ==
    /\ lastAction = "apply"
    /\ applied.status = "done"
    /\ applied.output # <<>>
    /\ CanRefine

\* every statement the session can hand to exec() is one the model of Python
\* gives a meaning to
KnownStatements ==
    \A src \in {PreviewSource[c] : c \in StoredFragments}
                \cup {ApplySource[c] : c \in StoredFragments} :
        \A k \in 1..Len(Executed[src].lines) :
            Executed[src].lines[k].body \in FragmentStatements \cup {DynamicModifierDef}

TypeOK ==
    /\ api_key \in ApiKeys
    /\ uploaded \in BOOLEAN
    /\ records \in RecordSets
    /\ lookup_map \in Maps
    /\ generated_code \in {None} \cup {Some(c) : c \in StoredFragments}
    /\ KnownStatements

====
